---- MODULE Spec2Model ----
(***************************************************************************)
(* Echoes of the Estate demo backend: the quota-and-relay middleware chain *)
(* of POST /api/chat (validatePassword -> chatLimiter ->                   *)
(* dailyLimitMiddleware -> handler), the two provider adapters             *)
(* (callClaude in server.js, callHuggingFace in the Hugging Face server),  *)
(* and the two side endpoints that touch the daily counter.                *)
(*                                                                         *)
(* Node runs each piece of synchronous code to completion, so one action   *)
(* is one run-to-completion piece: the arrival of a chat request up to its *)
(* rejection or its first fetch, and the continuation after each fetch.    *)
(***************************************************************************)
EXTENDS Integers, Sequences, FiniteSets, Bags, TLC

\* ---------------------------------------------------------------- bounds
\* Requests that may be awaiting the upstream at the same time.
MaxInFlight == 2
\* The clock stops advancing at this tick.
MaxTime == 3
\* Length of a calendar day in clock ticks (a tick is half a rate window).
TicksPerDay == 2
\* parseInt(process.env.DAILY_REQUEST_LIMIT || '200') ('500' in the Hugging
\* Face server): the configured daily limit, scaled down.
DAILY_LIMIT == 2
\* A client stops sending once its window holds this many hits above max.
MaxOverHits == 1
\* The messages arrays followed through the payload: up to MaxFill user
\* messages and then up to MaxRoles messages of any roles.
MaxFill == 13
MaxRoles == 3

\* ------------------------------------------------------ program constants
DEMO_PASSWORD == "echoes2025"
\* windowMs: 60 * 1000, in ticks of 30 s
windowMs == 2
\* max: 10
max == 10
\* callHuggingFace(prompt, retries = 3)
retries == 3
\* new Date(process.env.HACKATHON_END_DATE || '2025-12-31'), as a tick
HACKATHON_END_DATE == 2
\* messages.slice(-12) in server.js, messages.slice(-8) in the HF server
sliceClaude == 12
sliceHF == 8

Clients == {"ipA"}
Variants == {"claude", "hf"}

\* The X-Demo-Password header (and the /api/verify body password): absent,
\* wrong, or the secret.  An absent header and "" are both falsy.
Missing == ""
Passwords == {Missing, "wrong", DEMO_PASSWORD}

\* req.body.messages: absent, not an array, or an array (of roles).
NoMessages == "undefined"
NotArray == "notarray"
Bodies == {NoMessages, NotArray, <<>>, <<"user">>}

VARIABLES
  variant,            \* which server file runs: server.js or the HF server
  now,                \* the clock (new Date()), in ticks
  dailyRequestCount,  \* let dailyRequestCount
  lastResetDate,      \* let lastResetDate
  hits,               \* chatLimiter's store: totalHits per client key
  resetTime,          \* chatLimiter's store: end of the client's window
  inflight,           \* the bag of chat requests awaiting the upstream
  res,                \* what the last step did: the response it sent, if any
  \* History, read by no operation of the program.  track says which of it
  \* a behaviour records: "rate" (the authed tallies), "day" (the success
  \* tallies, counted as far as DAILY_LIMIT), "retry" (the transient
  \* failures of an adapter call) or "none"; it also selects how far the
  \* requests of that behaviour are explored ("serial": no history, and one
  \* request in flight at a time).
  track,
  authedPrev,         \* per client: requests past the Auth Gate, last tick
  authedCur,          \* per client: requests past the Auth Gate, this tick
  successesToday,     \* chat requests answered 200 on the clock's day
  successesSinceReset, \* chat requests answered 200 since the last reset
  \* The upstream payload as the handler and the adapter build it from
  \* req.body.messages; followed on its own, for any messages array.
  payload

vars == <<variant, now, dailyRequestCount, lastResetDate,
          hits, resetTime, inflight, res, track,
          authedPrev, authedCur, successesToday, successesSinceReset,
          payload>>

\* ---------------------------------------------------------- clock helpers
\* new Date().toDateString(): the calendar day of the clock.
toDateString(t) == t \div TicksPerDay

\* const isDemoActive = () => new Date() <= HACKATHON_END_DATE
isDemoActive == now <= HACKATHON_END_DATE

\* resetDailyCounter without its day comparison: it zeroes on every call.
resetDailyCounter_Always == [count |-> 0, last |-> toDateString(now)]

\* resetDailyCounter zeroing the counter without moving lastResetDate.
resetDailyCounter_KeepsDate ==
  LET today == toDateString(now) IN
  IF today # lastResetDate
    THEN [count |-> 0, last |-> lastResetDate]
    ELSE [count |-> dailyRequestCount, last |-> lastResetDate]

\* resetDailyCounter: the counter and the marker after the call.
resetDailyCounter ==
  LET today == toDateString(now) IN
  IF today # lastResetDate
    THEN [count |-> 0, last |-> today]
    ELSE [count |-> dailyRequestCount, last |-> lastResetDate]

\* ------------------------------------------------------------------ gates
\* validatePassword checking only that the header is present.
validatePassword_Presence(password) == ~(password = Missing)

\* validatePassword: next() iff the header is present and equals the secret.
validatePassword(password) == ~(password = Missing \/ password # DEMO_PASSWORD)

\* chatLimiter (express-rate-limit, memory store): a fixed window per key.
\* The hit is counted first; the window restarts when it has run out.
increment(c) ==
  IF resetTime[c] <= now
    THEN [totalHits |-> 1, resetTime |-> now + windowMs]
    ELSE [totalHits |-> hits[c] + 1, resetTime |-> resetTime[c]]

\* chatLimiter comparing with >= where the library compares with >.
chatLimiter_OffByOne(c) == increment(c).totalHits <= max + 1

\* chatLimiter: the request is let through iff totalHits <= max.
chatLimiter(c) == increment(c).totalHits <= max

\* dailyLimitMiddleware comparing with > instead of >=.
dailyLimitMiddleware_OffByOne(count) == ~(count > DAILY_LIMIT)

\* dailyLimitMiddleware, after resetDailyCounter(): next() iff count < limit.
dailyLimitMiddleware(count) == ~(count >= DAILY_LIMIT)

\* !messages || !Array.isArray(messages) || messages.length === 0
InvalidMessages(messages) ==
  \/ messages = NoMessages
  \/ messages = NotArray
  \/ Len(messages) = 0

\* requestsRemaining without Math.max.
requestsRemaining_NoClamp(count) == DAILY_LIMIT - count

\* Math.max(0, DAILY_LIMIT - dailyRequestCount)
requestsRemaining(count) ==
  IF DAILY_LIMIT - count > 0 THEN DAILY_LIMIT - count ELSE 0

\* ------------------------------------------------- what a request meets
\* What is true of an arriving chat request, read off the state it meets and
\* not off the decisions of the chain: its credential is missing or wrong;
\* its client's live window already holds max hits; today's count has
\* reached the limit; the demo end date has passed; its body is no
\* non-empty array; the clock's day is not lastResetDate.
BadCredential(password) == password # DEMO_PASSWORD
WindowFull(c) == resetTime[c] > now /\ hits[c] >= max
CountToday ==
  IF toDateString(now) = lastResetDate THEN dailyRequestCount ELSE 0
QuotaSpent == CountToday >= DAILY_LIMIT
Expired == now > HACKATHON_END_DATE
Rolled == toDateString(now) # lastResetDate

\* The bodies that are non-empty arrays of messages.
ValidBodies == {<<"user">>}

Met(c, password, messages) ==
  [client |-> c, missing |-> password = Missing,
   bad |-> BadCredential(password), full |-> WindowFull(c),
   spent |-> QuotaSpent, expired |-> Expired,
   invalid |-> \A b \in ValidBodies : b # messages, rolled |-> Rolled]

\* The same record where nothing is recorded.
NoMet ==
  [client |-> "none", missing |-> FALSE, bad |-> FALSE, full |-> FALSE,
   spent |-> FALSE, expired |-> FALSE, invalid |-> FALSE, rolled |-> FALSE]

\* The same record for a step that is no arrival: of what the step meets,
\* only the day is recorded.
MetDay == [NoMet EXCEPT !.rolled = Rolled]

\* -------------------------------------------------------------- responses
NoFlag == "none"

\* The record of a step.  What the program sent: the endpoint (path), the
\* HTTP status (0: nothing sent yet), the machine-readable flag and
\* requestsRemaining (-1 when the body has none).  And about the request the
\* step handled: the gates evaluated for it, in order (checks); the upstream
\* calls made for it so far (calls); the answer of the upstream to the last
\* of them (upstream); whether its reset check at the Daily Gate erased a
\* count that had reached the limit (over); the counter before the step
\* (before); and, for an arriving chat request, what it met (met).  And
\* about its adapter call: how it stands ("pending" while the call goes on,
\* else what it came to: "text", "throw" or "undefined"), and whether every
\* upstream answer to it before the last was a transient failure
\* (transient; recorded in the "retry" history only).
NoResponse ==
  [path |-> "none", status |-> 0, flag |-> NoFlag, requestsRemaining |-> -1,
   checks |-> <<>>, calls |-> 0, upstream |-> "none", over |-> FALSE,
   before |-> -1, met |-> NoMet, adapter |-> "none", transient |-> FALSE]

\* A chat request awaiting the upstream: the index i of the attempt under
\* way (the loop variable of callHuggingFace; 0 in server.js) and whether
\* its reset check at the Daily Gate erased a count that had reached the
\* limit; and, as "retry" history, whether every upstream answer to it so
\* far was a transient failure.
InFlight(i, over, transient) == [i |-> i, over |-> over, transient |-> transient]

\* resetDailyCounter(), called now, erases a count that reached the limit.
Over == Rolled /\ dailyRequestCount >= DAILY_LIMIT

AllChecks == <<"auth", "rate", "daily", "demo">>

\* The chain with the demo-window check moved in front of the Daily Gate.
ChatChain_DemoFirst(c, password, messages) ==
  IF ~validatePassword(password)
    THEN [out |-> "401", checks |-> <<"auth">>]
  ELSE IF ~chatLimiter(c)
    THEN [out |-> "429rate", checks |-> <<"auth", "rate">>]
  ELSE IF ~isDemoActive
    THEN [out |-> "403", checks |-> <<"auth", "rate", "demo">>]
  ELSE IF ~dailyLimitMiddleware(resetDailyCounter.count)
    THEN [out |-> "429daily", checks |-> <<"auth", "rate", "demo", "daily">>]
  ELSE IF InvalidMessages(messages)
    THEN [out |-> "400", checks |-> <<"auth", "rate", "demo", "daily">>]
  ELSE [out |-> "pass", checks |-> <<"auth", "rate", "demo", "daily">>]

\* The chain with the Daily Gate comparing before resetDailyCounter() ran.
ChatChain_StaleCount(c, password, messages) ==
  IF ~validatePassword(password)
    THEN [out |-> "401", checks |-> <<"auth">>]
  ELSE IF ~chatLimiter(c)
    THEN [out |-> "429rate", checks |-> <<"auth", "rate">>]
  ELSE IF ~dailyLimitMiddleware(dailyRequestCount)
    THEN [out |-> "429daily", checks |-> <<"auth", "rate", "daily">>]
  ELSE IF ~isDemoActive
    THEN [out |-> "403", checks |-> AllChecks]
  ELSE IF InvalidMessages(messages)
    THEN [out |-> "400", checks |-> AllChecks]
  ELSE [out |-> "pass", checks |-> AllChecks]

\* The chain with the messages validation in front of the demo-window check.
ChatChain_ValidateFirst(c, password, messages) ==
  IF ~validatePassword(password)
    THEN [out |-> "401", checks |-> <<"auth">>]
  ELSE IF ~chatLimiter(c)
    THEN [out |-> "429rate", checks |-> <<"auth", "rate">>]
  ELSE IF ~dailyLimitMiddleware(resetDailyCounter.count)
    THEN [out |-> "429daily", checks |-> <<"auth", "rate", "daily">>]
  ELSE IF InvalidMessages(messages)
    THEN [out |-> "400", checks |-> <<"auth", "rate", "daily">>]
  ELSE IF ~isDemoActive
    THEN [out |-> "403", checks |-> AllChecks]
  ELSE [out |-> "pass", checks |-> AllChecks]

\* app.post('/api/chat', validatePassword, chatLimiter, dailyLimitMiddleware,
\* handler): the gates evaluated, in order, up to the first that fails, and
\* the outcome: the rejection sent, or "pass" when the adapter is called.
ChatChain(c, password, messages) ==
  IF ~validatePassword(password)
    THEN [out |-> "401", checks |-> <<"auth">>]
  ELSE IF ~chatLimiter(c)
    THEN [out |-> "429rate", checks |-> <<"auth", "rate">>]
  ELSE IF ~dailyLimitMiddleware(resetDailyCounter.count)
    THEN [out |-> "429daily", checks |-> <<"auth", "rate", "daily">>]
  ELSE IF ~isDemoActive
    THEN [out |-> "403", checks |-> AllChecks]
  ELSE IF InvalidMessages(messages)
    THEN [out |-> "400", checks |-> AllChecks]
  ELSE [out |-> "pass", checks |-> AllChecks]

\* What each outcome of the chain sends.  On "pass" nothing is sent yet and
\* the first upstream call is under way.
ChainResult(out) ==
  CASE out = "401" ->
         [NoResponse EXCEPT !.status = 401, !.flag = "isAuthError"]
    [] out = "429rate" ->
         [NoResponse EXCEPT !.status = 429, !.flag = "isRateLimited"]
    [] out = "429daily" ->
         [NoResponse EXCEPT !.status = 429, !.flag = "isDailyLimitReached"]
    [] out = "403" ->
         [NoResponse EXCEPT !.status = 403, !.flag = "isDemoExpired"]
    [] out = "400" -> [NoResponse EXCEPT !.status = 400]
    [] out = "pass" -> [NoResponse EXCEPT !.calls = 1, !.adapter = "pending"]

\* ---------------------------------------------------------------- adapters
\* What the upstream answers to one fetch.
ClaudeOutcomes == {"ok", "fail"}
HFOutcomes == {"cold", "fail", "text", "badshape"}

\* The answers that are transient failures: the 503 of a loading model, and
\* any other non-ok status or failed fetch.
TransientOutcomes == {"cold", "fail"}

\* callClaude: one fetch; a non-ok status (or a failed fetch) throws.
callClaude(outcome) == IF outcome = "ok" THEN "text" ELSE "throw"

\* callHuggingFace returning the text of the first attempt only.
callHuggingFace_FirstAttemptOnly(i, outcome) ==
  CASE outcome = "text" -> IF i = 0 THEN "text" ELSE "undefined"
    [] outcome = "cold" -> IF i + 1 < retries THEN "again" ELSE "undefined"
    [] outcome \in {"fail", "badshape"} ->
         IF i = retries - 1 THEN "throw" ELSE "again"

\* callHuggingFace: what the loop does with the answer to attempt i
\* (i = 0 .. retries-1): return the text, throw to the handler, go round
\* again, or fall out of the loop, which returns undefined.
callHuggingFace(i, outcome) ==
  CASE outcome = "text" -> "text"
    [] outcome = "cold" ->                       \* status 503: continue
         IF i + 1 < retries THEN "again" ELSE "undefined"
    [] outcome \in {"fail", "badshape"} ->       \* thrown inside the try
         IF i = retries - 1 THEN "throw" ELSE "again"

\* The success tallies after a response of the given status; they count as
\* far as the limit.
Tally(n, status) ==
  IF status = 200 /\ track = "day" /\ n < DAILY_LIMIT THEN n + 1 ELSE n

\* An increment that checks the limit again.
incrementCount_Capped(count) == IF count < DAILY_LIMIT THEN count + 1 ELSE count

\* dailyRequestCount++
incrementCount(count) == count + 1

\* The handler after `await call...(...)`: the counter and the response.
\* A thrown adapter error goes to the catch block before the increment;
\* a returned value is followed by the increment and then by
\* ghostResponse.trim(), which throws on undefined.
AfterAdapter(result) ==
  CASE result = "text" ->
         LET n == incrementCount(dailyRequestCount) IN
         [count |-> n, status |-> 200, remaining |-> requestsRemaining(n),
          result |-> result]
    [] result = "undefined" ->
         [count |-> incrementCount(dailyRequestCount), status |-> 500,
          remaining |-> -1, result |-> result]
    [] result = "throw" ->
         [count |-> dailyRequestCount, status |-> 500, remaining |-> -1,
          result |-> result]

\* The record of the step that finishes request q after `calls` upstream
\* calls, the last of them answered `outcome`.
Finished(q, after, calls, outcome) ==
  [NoResponse EXCEPT !.path = "chat", !.status = after.status,
                     !.requestsRemaining = after.remaining,
                     !.checks = AllChecks, !.calls = calls,
                     !.upstream = outcome, !.over = q.over,
                     !.before = dailyRequestCount, !.met = MetDay,
                     !.adapter = after.result,
                     !.transient = q.transient]

\* ----------------------------------------------------------------- payload
\* A ChatMessage {role, content}.  The content of a message of the arrays
\* followed here is its index in req.body.messages, so that every entry is
\* told from every other.
Roles == {"system", "user", "assistant"}
ChatMessage(role, content) == [role |-> role, content |-> content]

\* The role sequences of length 0 .. MaxRoles.
RoleSeqs == UNION {[1..k -> Roles] : k \in 0..MaxRoles}

\* The messages array of n user messages followed by messages of roles rs.
MessagesOf(n, rs) ==
  [j \in 1..(n + Len(rs)) |->
     IF j <= n THEN ChatMessage("user", j) ELSE ChatMessage(rs[j - n], j)]

\* The non-empty arrays that pass the messages validation.
Inputs ==
  {MessagesOf(n, rs) : n \in 0..MaxFill, rs \in RoleSeqs} \ {<<>>}

\* Array.prototype.slice(start) keeping the first entries instead.
slice_FromStart(a, start) ==
  LET n == Len(a)
      k == IF start < 0 THEN -start ELSE n - start
  IN SubSeq(a, 1, IF k > n THEN n ELSE IF k < 0 THEN 0 ELSE k)

\* Array.prototype.slice(start): a negative start counts from the end, and
\* the start is clamped to the array; the entries from there to the end.
slice(a, start) ==
  LET n == Len(a)
      from == IF start < 0
                THEN (IF n + start < 0 THEN 0 ELSE n + start)
                ELSE (IF start > n THEN n ELSE start)
  IN SubSeq(a, from + 1, n)

\* const limitedMessages = messages.slice(-12) (or -8)
limitedMessages(messages) ==
  slice(messages, IF variant = "claude" THEN -sliceClaude ELSE -sliceHF)

\* systemMessage ? systemMessage.content : '' -- '' is content 0 here.
EmptyContent == 0

\* messages.find(m => m.role === 'system'), then its content or ''.
system(messages) ==
  LET found == {j \in 1..Len(messages) : messages[j].role = "system"} IN
  IF found = {} THEN EmptyContent
  ELSE messages[CHOOSE j \in found : \A k \in found : j <= k].content

\* callClaude sending every message as the conversation.
conversationMessages_Unfiltered(messages) == messages

\* messages.filter(m => m.role !== 'system')
conversationMessages(messages) ==
  SelectSeq(messages, LAMBDA m : m.role # "system")

NoPayload == [stage |-> "none"]

\* -------------------------------------------------------------------- Init
\* The server just started, recording history h.
Start(h) ==
  /\ track = h
  /\ variant \in Variants
  /\ now = 0
  /\ dailyRequestCount = 0
  /\ lastResetDate = toDateString(0)
  /\ hits = [c \in Clients |-> 0]
  /\ resetTime = [c \in Clients |-> 0]
  /\ inflight = EmptyBag
  /\ res = NoResponse
  /\ authedPrev = [c \in Clients |-> 0]
  /\ authedCur = [c \in Clients |-> 0]
  /\ successesToday = 0
  /\ successesSinceReset = 0
  /\ payload = NoPayload

Init == Start("none")
InitRate == Start("rate")
InitDay == Start("day")
InitOverlap == \E h \in {"none", "serial"} : Start(h)
InitRetry == Start("retry")

\* ------------------------------------------------------ exploration caps
\* The requests explored in flight at a time.  The Rate Gate reads nothing
\* that a request in flight can change, so the rate history is explored
\* with one; "serial" behaviours are those whose requests never overlap;
\* and an adapter call reads nothing that another request can change, so
\* the retry history is explored with one as well.
InFlightCap ==
  IF track \in {"rate", "serial", "retry"} THEN 1 ELSE MaxInFlight

\* The hits explored in one window of a client: MaxOverHits past the
\* limiter's max, and in the day history only as many as take the counter
\* to DAILY_LIMIT and meet the Daily Gate once more.
HitsCap == IF track = "day" THEN DAILY_LIMIT + 1 ELSE max + MaxOverHits

\* ----------------------------------------------------------------- actions
\* Time passes.  A window that has run out is dropped from the store, as
\* the store's next increment would restart it anyway.
Tick ==
  /\ now < MaxTime
  /\ now' = now + 1
  /\ hits' = [c \in Clients |-> IF resetTime[c] <= now + 1 THEN 0 ELSE hits[c]]
  /\ resetTime' =
       [c \in Clients |-> IF resetTime[c] <= now + 1 THEN 0 ELSE resetTime[c]]
  /\ res' = NoResponse
  /\ authedPrev' = authedCur
  /\ authedCur' = [c \in Clients |-> 0]
  /\ successesToday' =
       IF toDateString(now + 1) # toDateString(now) THEN 0 ELSE successesToday
  /\ UNCHANGED <<payload, variant, dailyRequestCount, lastResetDate, inflight, track,
                 successesSinceReset>>

\* POST /api/chat arrives from client c: the middleware chain and the
\* handler up to its first await.
ChatRequest(c, password, messages) ==
  /\ BagCardinality(inflight) < InFlightCap
  /\ validatePassword(password) => hits[c] < HitsCap
  /\ LET chain == ChatChain(c, password, messages)
         limited == Len(chain.checks) >= 2        \* chatLimiter ran
         gated == Len(chain.checks) >= 3          \* dailyLimitMiddleware ran
         over == gated /\ Over
     IN
     /\ hits' = IF limited THEN [hits EXCEPT ![c] = increment(c).totalHits]
                ELSE hits
     /\ resetTime' =
          IF limited THEN [resetTime EXCEPT ![c] = increment(c).resetTime]
          ELSE resetTime
     /\ dailyRequestCount' =
          IF gated THEN resetDailyCounter.count ELSE dailyRequestCount
     /\ lastResetDate' = IF gated THEN resetDailyCounter.last ELSE lastResetDate
     /\ inflight' = IF chain.out = "pass"
                      THEN inflight (+) SetToBag({InFlight(0, over, track = "retry")})
                    ELSE inflight
     /\ res' = [ChainResult(chain.out) EXCEPT
                  !.path = "chat", !.checks = chain.checks,
                  !.over = over, !.before = dailyRequestCount,
                  !.met = Met(c, password, messages)]
     /\ authedCur' = IF ~BadCredential(password) /\ track = "rate"
                       THEN [authedCur EXCEPT ![c] = @ + 1]
                     ELSE authedCur
     /\ successesSinceReset' =
          IF gated /\ Rolled THEN 0 ELSE successesSinceReset
  /\ UNCHANGED <<payload, variant, now, track, authedPrev, successesToday>>

\* server.js: the fetch of callClaude settles; the handler finishes.
ClaudeReturns(q, outcome) ==
  /\ variant = "claude"
  /\ BagIn(q, inflight)
  /\ LET after == AfterAdapter(callClaude(outcome)) IN
     /\ dailyRequestCount' = after.count
     /\ res' = Finished(q, after, 1, outcome)
     /\ successesToday' = Tally(successesToday, after.status)
     /\ successesSinceReset' = Tally(successesSinceReset, after.status)
  /\ inflight' = inflight (-) SetToBag({q})
  /\ UNCHANGED <<payload, variant, now, lastResetDate, hits, resetTime, track,
                 authedPrev, authedCur>>

\* Hugging Face server: the fetch of attempt q.i of request q settles; the
\* loop goes round again (after its 10 s or 2 s wait, during which the
\* request stays in flight) or the handler finishes.
HFAttempt(q, outcome) ==
  /\ variant = "hf"
  /\ BagIn(q, inflight)
  /\ LET result == callHuggingFace(q.i, outcome) IN
     IF result = "again"
       THEN /\ inflight' = (inflight (-) SetToBag({q}))
                             (+) SetToBag({InFlight(q.i + 1, q.over,
                                             q.transient /\
                                               outcome \in TransientOutcomes)})
            /\ res' = [NoResponse EXCEPT
                         !.path = "chat", !.checks = AllChecks,
                         !.calls = q.i + 2, !.upstream = outcome,
                         !.over = q.over, !.before = dailyRequestCount,
                         !.met = MetDay, !.adapter = "pending",
                         !.transient = q.transient]
            /\ UNCHANGED <<dailyRequestCount, successesToday,
                           successesSinceReset>>
       ELSE LET after == AfterAdapter(result) IN
            /\ dailyRequestCount' = after.count
            /\ res' = Finished(q, after, q.i + 1, outcome)
            /\ inflight' = inflight (-) SetToBag({q})
            /\ successesToday' = Tally(successesToday, after.status)
            /\ successesSinceReset' = Tally(successesSinceReset, after.status)
  /\ UNCHANGED <<payload, variant, now, lastResetDate, hits, resetTime, track,
                 authedPrev, authedCur>>

\* GET /health
Health ==
  /\ dailyRequestCount' = resetDailyCounter.count
  /\ lastResetDate' = resetDailyCounter.last
  /\ res' = [NoResponse EXCEPT
               !.path = "health", !.status = 200,
               !.requestsRemaining =
                 requestsRemaining(resetDailyCounter.count),
               !.before = dailyRequestCount, !.met = MetDay]
  /\ successesSinceReset' = IF Rolled THEN 0 ELSE successesSinceReset
  /\ UNCHANGED <<payload, variant, now, hits, resetTime, inflight, track,
                 authedPrev, authedCur, successesToday>>

\* /api/verify with `!password` answered 401 like a wrong password.
verifyStatus_NoPresenceCheck(password) ==
  IF password = DEMO_PASSWORD THEN 200 ELSE 401

\* The status /api/verify answers: 400 on `!password`, 200 on the secret,
\* 401 otherwise.
verifyStatus(password) ==
  IF password = Missing THEN 400
  ELSE IF password = DEMO_PASSWORD THEN 200
  ELSE 401

\* POST /api/verify
Verify(password) ==
  /\ LET status == verifyStatus(password)
         after == IF status = 200 THEN resetDailyCounter
                  ELSE [count |-> dailyRequestCount, last |-> lastResetDate]
     IN
     /\ dailyRequestCount' = after.count
     /\ lastResetDate' = after.last
     /\ res' = [NoResponse EXCEPT
                  !.path = "verify", !.status = status,
                  !.flag = IF status = 200 THEN "valid:true"
                           ELSE "valid:false",
                  !.requestsRemaining =
                    IF status = 200 THEN requestsRemaining(after.count)
                    ELSE -1,
                  !.before = dailyRequestCount,
                  !.met = [MetDay EXCEPT
                             !.missing = password = Missing,
                             !.bad = BadCredential(password)]]
     /\ successesSinceReset' =
          IF status = 200 /\ Rolled THEN 0 ELSE successesSinceReset
  /\ UNCHANGED <<payload, variant, now, hits, resetTime, inflight, track,
                 authedPrev, authedCur, successesToday>>

Next ==
  \/ Tick
  \/ \E c \in Clients, p \in Passwords, m \in Bodies : ChatRequest(c, p, m)
  \/ \E q \in BagToSet(inflight), o \in ClaudeOutcomes : ClaudeReturns(q, o)
  \/ \E q \in BagToSet(inflight), o \in HFOutcomes : HFAttempt(q, o)
  \/ Health
  \/ \E p \in Passwords : Verify(p)

Spec == Init /\ [][Next]_vars
SpecRate == InitRate /\ [][Next]_vars
SpecDay == InitDay /\ [][Next]_vars
SpecOverlap == InitOverlap /\ [][Next]_vars
SpecRetry == InitRetry /\ [][Next]_vars

\* ------------------------------------------------------ the payload alone
\* A chat request with a valid messages array has passed the gates.
InitPayload ==
  /\ track = "none"
  /\ variant \in Variants
  /\ now = 0
  /\ dailyRequestCount = 0
  /\ lastResetDate = toDateString(0)
  /\ hits = [c \in Clients |-> 0]
  /\ resetTime = [c \in Clients |-> 0]
  /\ inflight = EmptyBag
  /\ res = NoResponse
  /\ authedPrev = [c \in Clients |-> 0]
  /\ authedCur = [c \in Clients |-> 0]
  /\ successesToday = 0
  /\ successesSinceReset = 0
  /\ \E m \in Inputs : payload = [stage |-> "validated", messages |-> m]

\* The handler trims the array and calls the adapter with the result.
Trim ==
  /\ payload.stage = "validated"
  /\ payload' = [stage |-> "trimmed", messages |-> payload.messages,
                 limitedMessages |-> limitedMessages(payload.messages)]
  /\ UNCHANGED <<variant, now, dailyRequestCount, lastResetDate, hits,
                 resetTime, inflight, res, track, authedPrev, authedCur,
                 successesToday, successesSinceReset>>

\* callClaude builds the request body from the trimmed array.
BuildBody ==
  /\ variant = "claude"
  /\ payload.stage = "trimmed"
  /\ payload' = [stage |-> "built", messages |-> payload.messages,
                 limitedMessages |-> payload.limitedMessages,
                 system |-> system(payload.limitedMessages),
                 conversationMessages |->
                   conversationMessages(payload.limitedMessages)]
  /\ UNCHANGED <<variant, now, dailyRequestCount, lastResetDate, hits,
                 resetTime, inflight, res, track, authedPrev, authedCur,
                 successesToday, successesSinceReset>>

NextPayload == Trim \/ BuildBody

SpecPayload == InitPayload /\ [][NextPayload]_vars

\* ================================================================== claims
\* The last step was the arrival of a chat request.
Arrived == res.path = "chat" /\ res.upstream = "none"

\* ... and the chain sent one of the four gates' rejections.
Rejected == Arrived /\ res.status \in {401, 429, 403}

\* ... or let the request through to the adapter.
Admitted == Arrived /\ res.status = 0 /\ res.calls = 1

\* ... and the request had a valid credential and room in its rate window.
PastRate == Arrived /\ ~res.met.bad /\ ~res.met.full

\* The last step got a successful answer from the upstream.
UpstreamSucceeded == res.path = "chat" /\ res.upstream \in {"ok", "text"}

Max0(x) == IF x < 0 THEN 0 ELSE x

\* The number, 1 to 4, of the first check the request fails; 5 if none.
FirstFailing(m) ==
  IF m.bad THEN 1 ELSE IF m.full THEN 2 ELSE IF m.spent THEN 3
  ELSE IF m.expired THEN 4 ELSE 5

\* C1: for every chat request the checks run in the order auth, rate,
\* daily, demo; exactly the checks up to the first failing one are
\* evaluated, the response is that check's rejection, and an upstream call
\* is made only for a request that passed all four.
C1_GateOrder ==
  /\ Arrived =>
       LET first == FirstFailing(res.met) IN
       /\ res.checks = SubSeq(AllChecks, 1, IF first = 5 THEN 4 ELSE first)
       /\ first = 1 => res.status = 401 /\ res.flag = "isAuthError"
       /\ first = 2 => res.status = 429 /\ res.flag = "isRateLimited"
       /\ first = 3 => res.status = 429 /\ res.flag = "isDailyLimitReached"
       /\ first = 4 => res.status = 403 /\ res.flag = "isDemoExpired"
       /\ first = 5 => res.flag = NoFlag
       /\ res.calls > 0 => first = 5
  /\ res.calls > 0 => res.path = "chat" /\ res.checks = AllChecks

\* C1 witness: the Daily Gate has rejected a request that the demo check
\* and the body validation would have rejected too.
C1_Witness ==
  /\ Arrived
  /\ res.flag = "isDailyLimitReached"
  /\ res.checks = <<"auth", "rate", "daily">>
  /\ res.met.expired
  /\ res.met.invalid

\* C2 (as claimed): a chat request that ends with HTTP 500 has not
\* incremented the counter.
C2_NoIncrementOn500 ==
  res.path = "chat" /\ res.status = 500 => dailyRequestCount = res.before

\* C3 (as claimed): a chat request rejected by a gate makes no upstream
\* call and leaves the counter at the value it had when the request arrived.
C3_RejectionKeepsCount ==
  Rejected => res.calls = 0 /\ dailyRequestCount = res.before

\* C3 (amended): a chat request rejected by a gate makes no upstream call
\* and never increments the counter; the counter keeps its value, except
\* that a request past the Auth and Rate Gates on a day other than
\* lastResetDate has zeroed it.
C3_RejectionKeepsOrResets ==
  Rejected =>
    /\ res.calls = 0
    /\ dailyRequestCount <= res.before
    /\ dailyRequestCount =
         IF ~res.met.bad /\ ~res.met.full /\ res.met.rolled
           THEN 0 ELSE res.before

\* C3 witness: the demo check has rejected the first gated request of a
\* new day, after the Daily Gate zeroed a positive counter.
C3_Witness ==
  /\ Rejected
  /\ res.flag = "isDemoExpired"
  /\ res.met.rolled
  /\ res.before > 0
  /\ dailyRequestCount = 0

\* C4 (as claimed): once DAILY_LIMIT chat requests have been answered 200 on
\* the current calendar day, a further otherwise-valid request is rejected
\* by the Daily Gate, goes nowhere and leaves the counter alone.
C4_LimitAfterSuccessesToday ==
  PastRate /\ ~res.met.expired /\ ~res.met.invalid
    /\ successesToday >= DAILY_LIMIT =>
      /\ res.status = 429 /\ res.flag = "isDailyLimitReached"
      /\ res.calls = 0
      /\ dailyRequestCount = res.before

\* C4 (amended): the same, once DAILY_LIMIT chat requests have been answered
\* 200 since the counter was last reset and that reset was today's.
C4_LimitAfterSuccessesSinceReset ==
  PastRate /\ ~res.met.expired /\ ~res.met.invalid
    /\ ~res.met.rolled /\ successesSinceReset >= DAILY_LIMIT =>
      /\ res.status = 429 /\ res.flag = "isDailyLimitReached"
      /\ res.calls = 0
      /\ dailyRequestCount = res.before

\* C4 witness: the Daily Gate has just rejected an otherwise-valid request
\* after DAILY_LIMIT successes since today's reset.
C4_Witness ==
  /\ PastRate
  /\ res.flag = "isDailyLimitReached"
  /\ ~res.met.expired /\ ~res.met.invalid /\ ~res.met.rolled
  /\ successesSinceReset >= DAILY_LIMIT

\* C5: the gate and the increment are not atomic.  A valid request that
\* meets count < DAILY_LIMIT is admitted whatever is already in flight, and
\* every success increments, whatever the counter has become since the
\* request passed the gate; the counter can so exceed DAILY_LIMIT.
C5_CheckAndIncrementNotAtomic ==
  /\ PastRate /\ ~res.met.spent /\ ~res.met.expired /\ ~res.met.invalid =>
       Admitted
  /\ res.path = "chat" /\ res.status = 200 =>
       dailyRequestCount = res.before + 1

\* C5 witness: a success has pushed the counter above the limit.
C5_Witness ==
  /\ res.path = "chat"
  /\ res.status = 200
  /\ res.before >= DAILY_LIMIT
  /\ dailyRequestCount > DAILY_LIMIT

C7_SuccessIncrementsOnce ==
  UpstreamSucceeded =>
    /\ res.status = 200
    /\ dailyRequestCount = res.before + 1
    /\ res.requestsRemaining = Max0(DAILY_LIMIT - dailyRequestCount)
    /\ res.requestsRemaining >= 0

\* C7 witness: a 200 with requestsRemaining 0 sent with the counter above
\* the limit.
C7_Witness ==
  /\ UpstreamSucceeded
  /\ res.requestsRemaining = 0
  /\ dailyRequestCount > DAILY_LIMIT

\* C8: a chat request with a missing or wrong credential is answered 401
\* isAuthError in every state, goes nowhere and changes neither the counter
\* nor lastResetDate.
C8_BadCredentialIs401 ==
  Arrived /\ res.met.bad =>
    /\ res.status = 401 /\ res.flag = "isAuthError"
    /\ res.calls = 0
    /\ dailyRequestCount = res.before
    /\ res.met.rolled => lastResetDate # toDateString(now)

\* C8 witness: a 401 sent in a state where the rate window is full, the
\* daily quota is spent and the demo is over.
C8_Witness ==
  /\ Arrived
  /\ res.flag = "isAuthError"
  /\ res.met.full /\ res.met.spent /\ res.met.expired

\* C9 (as claimed): a request with a valid credential that follows 10 such
\* requests of the same client made within the last 60 seconds (this tick
\* and the one before) is rejected by the Rate Gate.
C9_RollingWindow ==
  \A c \in Clients :
    Arrived /\ res.met.client = c /\ ~res.met.bad
      /\ authedPrev[c] + authedCur[c] - 1 >= max =>
        res.status = 429 /\ res.flag = "isRateLimited"

\* The requests with a valid credential that client c has made in its
\* current limiter window (the windowMs that began with the first of them).
InWindow(c) ==
  IF resetTime[c] <= now THEN 0
  ELSE IF resetTime[c] - windowMs = now THEN authedCur[c]
  ELSE authedPrev[c] + authedCur[c]

\* C9 (amended): a request with a valid credential that follows 10 such
\* requests of the same client in the client's current limiter window is
\* rejected by the Rate Gate.
C9_FixedWindow ==
  \A c \in Clients :
    Arrived /\ res.met.client = c /\ ~res.met.bad
      /\ InWindow(c) - 1 >= max =>
        res.status = 429 /\ res.flag = "isRateLimited"

\* C9 witness: the 11th request of a window that spans two ticks has just
\* been rejected.
C9_Witness ==
  /\ Arrived
  /\ res.flag = "isRateLimited"
  /\ \E c \in Clients :
       /\ res.met.client = c
       /\ authedPrev[c] > 0
       /\ InWindow(c) = max + 1
       /\ authedPrev[c] + authedCur[c] = max + 1

\* C10: after the demo end date, a request with a valid credential, under
\* the rate limit and under the daily quota is answered 403 isDemoExpired
\* whatever its body, goes nowhere and does not increment the counter.
C10_ExpiredIs403 ==
  PastRate /\ ~res.met.spent /\ res.met.expired =>
    /\ res.status = 403 /\ res.flag = "isDemoExpired"
    /\ res.calls = 0
    /\ dailyRequestCount <= res.before
    /\ dailyRequestCount = IF res.met.rolled THEN 0 ELSE res.before

\* C10 witness: a 403 sent for a request with an invalid body while
\* requests admitted before the end date are still in flight.
C10_Witness ==
  /\ PastRate
  /\ res.flag = "isDemoExpired"
  /\ res.met.invalid
  /\ inflight # EmptyBag
  /\ dailyRequestCount < DAILY_LIMIT

\* C11: GET /health is answered 200 in every state and changes the counter
\* and lastResetDate only by the lazy day reset: called on lastResetDate's
\* day it leaves both as they are, and it never increments the counter.
C11_HealthOnlyResets ==
  res.path = "health" =>
    /\ res.status = 200
    /\ lastResetDate = toDateString(now)
    /\ dailyRequestCount = IF res.met.rolled THEN 0 ELSE res.before
    /\ res.requestsRemaining = Max0(DAILY_LIMIT - dailyRequestCount)

\* C11 witness: /health answered on the day of the last reset, with the
\* rate window full, the daily quota spent and the demo over.
C11_Witness ==
  /\ res.path = "health"
  /\ res.status = 200
  /\ ~res.met.rolled
  /\ dailyRequestCount = res.before
  /\ \E c \in Clients : WindowFull(c)
  /\ QuotaSpent
  /\ Expired

HFCallEnded ==
  /\ variant = "hf"
  /\ res.path = "chat"
  /\ res.adapter \in {"text", "throw", "undefined"}

\* C13 (as claimed): when every attempt of a call of the Hugging Face
\* adapter fails transiently (cold start or generic failure, in any mix),
\* the call makes exactly `retries` upstream calls and then raises.
C13_ExhaustedBudgetRaises ==
  HFCallEnded /\ res.transient /\ res.upstream \in TransientOutcomes =>
    res.calls = retries /\ res.adapter = "throw"

\* C14 (as claimed): an upstream answer of a success status whose body has
\* none of the accepted shapes makes the call of the Hugging Face adapter
\* fail at once, whichever attempt it is: the call raises and no further
\* upstream call is made for the request.
C14_BadShapeIsFatal ==
  variant = "hf" /\ res.path = "chat" /\ res.upstream = "badshape" =>
    /\ res.adapter = "throw"
    /\ res.status = 500

\* C15: when attempts of a call of the Hugging Face adapter have failed
\* (cold start or generic failure) and a later attempt within the budget
\* is answered with a recognized success, the call returns that text and
\* ends there: the request is answered 200 and the counter grows by one.
C15_RetryThenSuccess ==
  variant = "hf" /\ res.path = "chat" /\ res.upstream = "text"
    /\ res.calls >= 2 =>
      /\ res.calls <= retries
      /\ res.adapter = "text"
      /\ res.status = 200
      /\ dailyRequestCount = res.before + 1

\* C15 witness: a request answered 200 on its third attempt, after two
\* transient failures.
C15_Witness ==
  /\ variant = "hf"
  /\ res.path = "chat"
  /\ res.upstream = "text"
  /\ res.transient
  /\ res.calls = retries
  /\ res.status = 200

\* The last step handled a request (any endpoint, or the completion of a
\* chat request) and found the clock on a day other than lastResetDate.
FirstOfDay == res.path # "none" /\ res.met.rolled

\* The last step ran resetDailyCounter(): /health, /api/verify with the
\* secret, or a chat request past the Auth and Rate Gates.
RanResetCheck ==
  \/ res.path = "health"
  \/ res.path = "verify" /\ ~res.met.bad
  \/ PastRate

\* C16 (as claimed): whatever request the server handles first after a day
\* change, its handling moves lastResetDate to the new day (with the
\* counter zeroed, ahead of the increment of a completion), and no other
\* request makes the counter decrease.
C16_ResetAtFirstRequest ==
  res.path # "none" =>
    /\ lastResetDate = toDateString(now)
    /\ FirstOfDay /\ res.adapter \in {"none", "pending"} =>
         dailyRequestCount = 0
    /\ ~FirstOfDay => dailyRequestCount >= res.before

\* C16 (amended): the request that finds the clock on a new day resets
\* (counter to 0, lastResetDate to the day) exactly when it runs the reset
\* check; any other step of a request leaves lastResetDate alone and never
\* makes the counter decrease.
C16_ResetAtFirstResetCheck ==
  res.path # "none" =>
    IF FirstOfDay /\ RanResetCheck
      THEN dailyRequestCount = 0 /\ lastResetDate = toDateString(now)
      ELSE /\ dailyRequestCount >= res.before
           /\ lastResetDate = toDateString(now) <=> ~FirstOfDay

\* C16 witness: /api/verify with the secret, the first to run the reset
\* check on a new day, has zeroed a positive counter.
C16_Witness ==
  /\ res.path = "verify"
  /\ res.status = 200
  /\ FirstOfDay
  /\ res.before > 0
  /\ dailyRequestCount = 0
  /\ lastResetDate = toDateString(now)

\* Min(n, k) of the claim.
MinOf(n, k) == IF n < k THEN n ELSE k

\* K of the claim: 12 in the structured variant, 8 in the prompt variant.
KeptByVariant == IF variant = "claude" THEN 12 ELSE 8

\* C17: for every messages array of length n >= 1 the adapter receives
\* exactly its last min(n, K) entries, in their order; an array of length
\* <= K is passed unchanged.
C17_LastKInOrder ==
  payload.stage \in {"trimmed", "built"} =>
    LET m == payload.messages
        l == payload.limitedMessages
        n == Len(m)
    IN /\ Len(l) = MinOf(n, KeptByVariant)
       /\ \A j \in 1..Len(l) : l[j] = m[n - Len(l) + j]
       /\ n <= KeptByVariant => l = m

\* C17 witness: an array longer than K has been trimmed to its last K.
C17_Witness ==
  /\ payload.stage = "trimmed"
  /\ Len(payload.messages) > KeptByVariant + 1
  /\ Len(payload.limitedMessages) = KeptByVariant
  /\ payload.limitedMessages[1].content =
       Len(payload.messages) - KeptByVariant + 1

\* The positions of the system messages of an array.
SystemAt(l) == {j \in 1..Len(l) : l[j].role = "system"}

\* An array without its entry at position f.
Without(l, f) == SubSeq(l, 1, f - 1) \o SubSeq(l, f + 1, Len(l))

\* The system instruction of the claim: the content of the first system
\* message, empty if there is none.
SystemIsFirst(l, sys) ==
  IF SystemAt(l) = {} THEN sys = EmptyContent
  ELSE \E f \in SystemAt(l) :
         /\ \A g \in SystemAt(l) : f <= g
         /\ sys = l[f].content

\* C18 (as claimed): the system instruction sent upstream is the content
\* of the first system message (empty if none), and the conversation sent
\* is every message of the trimmed array other than that first system
\* message, in order.
C18_AllButFirstSystem ==
  payload.stage = "built" =>
    LET l == payload.limitedMessages IN
    /\ SystemIsFirst(l, payload.system)
    /\ payload.conversationMessages =
         IF SystemAt(l) = {} THEN l
         ELSE Without(l, CHOOSE f \in SystemAt(l) :
                           \A g \in SystemAt(l) : f <= g)

\* C18 (amended): the system instruction sent upstream is the content of
\* the first system message (empty if none), and the conversation sent is
\* the messages of the trimmed array whose role is not system, each once
\* and in their order; a system message after the first is sent nowhere.
C18_AllNonSystem ==
  payload.stage = "built" =>
    LET l == payload.limitedMessages
        c == payload.conversationMessages
    IN /\ SystemIsFirst(l, payload.system)
       /\ Len(c) = Len(l) - Cardinality(SystemAt(l))
       /\ \A j \in 1..Len(c) : c[j].role # "system"
       /\ \A j \in 1..Len(l) :
            l[j].role # "system" => \E k \in 1..Len(c) : c[k] = l[j]
       /\ \A j, k \in 1..Len(c) : j < k => c[j].content < c[k].content

\* C18 witness: a body built from a trimmed array with two system
\* messages and other messages around them.
C18_Witness ==
  /\ payload.stage = "built"
  /\ Cardinality(SystemAt(payload.limitedMessages)) = 2
  /\ Len(payload.conversationMessages) >= 2
  /\ payload.system # EmptyContent

\* K of C19: the most chat requests in flight at once in the behaviour,
\* 1 when its requests never overlap.
MostInFlight == IF track = "serial" THEN 1 ELSE MaxInFlight

\* C19: with at most K chat requests in flight at once between the Daily
\* Gate and their increment, the counter never exceeds DAILY_LIMIT + K - 1;
\* with K = 1 it never exceeds DAILY_LIMIT.
C19_OvershootBound ==
  /\ BagCardinality(inflight) <= MostInFlight
  /\ dailyRequestCount <= DAILY_LIMIT + MostInFlight - 1
  /\ track = "serial" => dailyRequestCount <= DAILY_LIMIT

\* C19 witness: with more than one request in flight at once, the last of
\* them to succeed has taken the counter to DAILY_LIMIT + K - 1.
C19_Witness ==
  /\ MostInFlight > 1
  /\ res.path = "chat"
  /\ res.status = 200
  /\ dailyRequestCount = DAILY_LIMIT + MostInFlight - 1

\* C20: a client's rate-window count is exactly the number of its chat
\* requests with a valid credential in the current window, whatever became
\* of them later; nothing else (a request rejected by the Auth Gate, a
\* /health, a /api/verify) adds to it, so a request is rate-limited only
\* when more than max such requests fall in its window.
C20_WindowCountsAuthedOnly ==
  /\ \A c \in Clients :
       hits[c] = IF resetTime[c] > now THEN InWindow(c) ELSE 0
  /\ Arrived /\ res.flag = "isRateLimited" =>
       InWindow(res.met.client) > max

\* C20 witness: a request rejected by the Daily Gate has consumed a unit of
\* a window that spans two ticks, and the count is the number of requests
\* with a valid credential in the window.
C20_Witness ==
  /\ Arrived
  /\ res.flag = "isDailyLimitReached"
  /\ \E c \in Clients :
       /\ res.met.client = c
       /\ authedPrev[c] > 0
       /\ authedCur[c] > 0
       /\ hits[c] = authedPrev[c] + authedCur[c]
====
